---------------------------- MODULE Spec2Model ----------------------------
(***************************************************************************)
(* PointCloud2 <-> Arrow StructArray conversion of r2r-msg-ext             *)
(* (src/src/sensor_msgs/msg/with_arrow.rs).                                *)
(*                                                                         *)
(* Conventions of the model                                                *)
(*  - a byte is a number in 0..255; a buffer is a sequence of bytes;       *)
(*  - a decoded element (i8 .. f64) is its bit pattern, written as the     *)
(*    sequence of its bytes, most significant first.  from_be_bytes is     *)
(*    then the identity on the byte sequence and from_le_bytes reverses    *)
(*    it; to_be_bytes / to_le_bytes are their inverses;                    *)
(*  - an Arrow DataType is a record [list, kind, size]: a primitive kind   *)
(*    has list = FALSE and size = 0, FixedSizeList(kind, n) has            *)
(*    list = TRUE and size = n;                                            *)
(*  - an Arrow array is [dt, len, buffer]: its data type, its logical      *)
(*    length, and the elements held by its (child) value buffer;           *)
(*  - Option: None is << >>, Some(x) is << x >>;                           *)
(*  - Result: [tag, table, msg, args] with tag "ok", "err" (an anyhow       *)
(*    error returned as a value) or "panic" (the thread unwinds); "none"   *)
(*    means the operation has not run;                                     *)
(*  - usize is 64 bits wide (a 64-bit target): no product of two u32       *)
(*    values overflows it.                                                 *)
(*                                                                         *)
(* Behaviour of the arrow crate the module calls into                      *)
(*  - StructArray::from(Vec<(FieldRef, ArrayRef)>) is StructArray::new,    *)
(*    which unwraps try_new: it panics when an array's data type differs   *)
(*    from its field's, or its length from the first array's;              *)
(*  - ArrayData::builder(dt) starts at len 0, and build() accepts a        *)
(*    buffer longer than the length needs;                                 *)
(*  - DataType::size() is the size in memory of the DataType value, not    *)
(*    the width of an element (that is DataType::primitive_width());       *)
(*  - slice::chunks / chunks_mut panic on a chunk size of 0, slice         *)
(*    indexing panics out of range, copy_from_slice panics on slices of    *)
(*    different lengths.                                                   *)
(***************************************************************************)
EXTENDS Integers, Sequences, FiniteSets, TLC

(***************************************************************************)
(* Bounds of the model.                                                    *)
(***************************************************************************)
MaxFields == 2
MaxDim == 2
MaxCount == 2

(***************************************************************************)
(* enum RosDataType (repr u8)                                              *)
(***************************************************************************)
I8 == 1
U8 == 2
I16 == 3
U16 == 4
I32 == 5
U32 == 6
F32 == 7
F64 == 8

RosDataType == {I8, U8, I16, U16, I32, U32, F32, F64}

None == << >>
Some(x) == << x >>

\* FromPrimitive::from_u8, derived for RosDataType
from_u8(d) == IF d \in RosDataType THEN Some(d) ELSE None

\* RosDataType::size
size(t) ==
    CASE t = I8 -> 1
      [] t = U8 -> 1
      [] t = I16 -> 2
      [] t = U16 -> 2
      [] t = I32 -> 4
      [] t = U32 -> 4
      [] t = F32 -> 4
      [] t = F64 -> 8

\* arrow DataType values used by the module
Prim(k) == [list |-> FALSE, kind |-> k, size |-> 0]
FixedSizeList(k, n) == [list |-> TRUE, kind |-> k, size |-> n]

SupportedKinds ==
    {"Int8", "UInt8", "Int16", "UInt16", "Int32", "UInt32", "Float32", "Float64"}

\* RosDataType::to_arrow_datatype
to_arrow_datatype(t) ==
    CASE t = I8 -> Prim("Int8")
      [] t = U8 -> Prim("UInt8")
      [] t = I16 -> Prim("Int16")
      [] t = U16 -> Prim("UInt8")
      [] t = I32 -> Prim("Int32")
      [] t = U32 -> Prim("UInt32")
      [] t = F32 -> Prim("Float32")
      [] t = F64 -> Prim("Float64")

\* a registry that also takes a 64-bit integer column, as a 32-bit one
from_arrow_datatype_wide(dt) ==
    IF dt.list THEN None
    ELSE CASE dt.kind = "Int8" -> Some(I8)
           [] dt.kind = "UInt8" -> Some(U8)
           [] dt.kind = "Int16" -> Some(I16)
           [] dt.kind = "UInt16" -> Some(U16)
           [] dt.kind \in {"Int32", "Int64"} -> Some(I32)
           [] dt.kind = "UInt32" -> Some(U32)
           [] dt.kind = "Float32" -> Some(F32)
           [] dt.kind = "Float64" -> Some(F64)
           [] OTHER -> None

\* RosDataType::from_arrow_datatype
from_arrow_datatype(dt) ==
    IF dt.list THEN None
    ELSE CASE dt.kind = "Int8" -> Some(I8)
           [] dt.kind = "UInt8" -> Some(U8)
           [] dt.kind = "Int16" -> Some(I16)
           [] dt.kind = "UInt16" -> Some(U16)
           [] dt.kind = "Int32" -> Some(I32)
           [] dt.kind = "UInt32" -> Some(U32)
           [] dt.kind = "Float32" -> Some(F32)
           [] dt.kind = "Float64" -> Some(F64)
           [] OTHER -> None

(***************************************************************************)
(* Slices                                                                  *)
(***************************************************************************)
Reverse(s) == [i \in 1..Len(s) |-> s[Len(s) + 1 - i]]

Min(a, b) == IF a < b THEN a ELSE b

\* &s[start..end] for 0 <= start <= end <= s.len()
Slice(s, start, end) == SubSeq(s, start + 1, end)

\* slice::chunks(n) for n > 0: consecutive pieces of n items, the last one shorter
RECURSIVE Chunks(_, _)
Chunks(s, n) ==
    IF Len(s) = 0 THEN << >>
    ELSE << SubSeq(s, 1, Min(n, Len(s))) >> \o Chunks(SubSeq(s, n + 1, Len(s)), n)

\* Iterator::flat_map / flatten over a sequence of sequences
RECURSIVE Flatten(_)
Flatten(ss) == IF Len(ss) = 0 THEN << >> ELSE Head(ss) \o Flatten(Tail(ss))

Zeros(n) == [i \in 1..n |-> 0]

(***************************************************************************)
(* Results                                                                 *)
(***************************************************************************)
NoTable == [len |-> 0, columns |-> << >>]

NotRun == [tag |-> "none", table |-> NoTable, msg |-> "", args |-> << >>]
Ok(t) == [tag |-> "ok", table |-> t, msg |-> "", args |-> << >>]
Err(m, a) == [tag |-> "err", table |-> NoTable, msg |-> m, args |-> a]
Panic(m) == [tag |-> "panic", table |-> NoTable, msg |-> m, args |-> << >>]


(***************************************************************************)
(* PointCloud2::to_arrow_array                                             *)
(***************************************************************************)
\* <T>::from_be_bytes / <T>::from_le_bytes in make_array! and make_list_array!
from_be_bytes(bytes) == bytes
from_le_bytes(bytes) == Reverse(bytes)

\* the closure of make_array! / make_list_array!: one element from its bytes
decode_elem(bytes, is_bigendian) ==
    IF is_bigendian THEN from_be_bytes(bytes) ELSE from_le_bytes(bytes)

\* the array type chosen by the `count == 1` match arms (Int8Array .. Float64Array)
make_array_kind(t) ==
    CASE t = I8 -> "Int8"
      [] t = U8 -> "UInt8"
      [] t = I16 -> "Int16"
      [] t = U16 -> "UInt16"
      [] t = I32 -> "Int32"
      [] t = U32 -> "UInt32"
      [] t = F32 -> "Float32"
      [] t = F64 -> "Float64"

\* the value type handed to make_list_array! by the `count != 1` match arms
make_list_array_kind(t) ==
    CASE t = I8 -> "Int8"
      [] t = U8 -> "UInt8"
      [] t = I16 -> "Int16"
      [] t = U16 -> "UInt16"
      [] t = I32 -> "Int32"
      [] t = U32 -> "UInt32"
      [] t = F32 -> "Float32"
      [] t = F64 -> "Float64"

\* ArrayData::builder(..) starts with len 0, and neither builder of
\* make_list_array! sets a length before build()
BuilderDefaultLen == 0

\* make_array!: a primitive array with one entry per decoded element
make_array(elems, t, is_bigendian) ==
    LET vec == [i \in 1..Len(elems) |-> decode_elem(elems[i], is_bigendian)]
    IN  [dt |-> Prim(make_array_kind(t)), len |-> Len(vec), buffer |-> vec]

\* make_list_array!: the decoded elements go to the child's buffer; the
\* list array is built from ArrayData whose length was never set
make_list_array(elems, count, t, is_bigendian) ==
    LET vec == [i \in 1..Len(elems) |-> decode_elem(elems[i], is_bigendian)]
    IN  [dt |-> FixedSizeList(make_list_array_kind(t), count),
         len |-> BuilderDefaultLen,
         buffer |-> vec]

\* FieldDesc built for a field whose datatype tag is known
FieldDesc(f) ==
    LET t == from_u8(f.datatype)[1]
    IN  [field |-> [name |-> f.name, data_type |-> to_arrow_datatype(t)],
         datatype |-> t,
         offset |-> f.offset,
         data_size |-> size(t),
         count |-> f.count]

\* a resolution that reports the last field whose tag from_u8 rejects
LastUnsupported(fields) ==
    LET bad == {i \in 1..Len(fields) : from_u8(fields[i].datatype) = None}
    IN  IF bad = {} THEN 0 ELSE CHOOSE i \in bad : \A j \in bad : i >= j

\* index of the first field whose tag from_u8 rejects, 0 if there is none
FirstUnsupported(fields) ==
    LET bad == {i \in 1..Len(fields) : from_u8(fields[i].datatype) = None}
    IN  IF bad = {} THEN 0 ELSE CHOOSE i \in bad : \A j \in bad : i <= j

\* a point_bytes_iter that takes the records from the end of each row, its
\* trailing bytes included
point_bytes_iter_from_end(msg) ==
    Flatten([r \in 1..Len(Chunks(msg.data, msg.row_step)) |->
                Chunks(Slice(Chunks(msg.data, msg.row_step)[r],
                             Len(Chunks(msg.data, msg.row_step)[r])
                                - msg.point_step * msg.width,
                             Len(Chunks(msg.data, msg.row_step)[r])),
                       msg.point_step)])

\* point_bytes_iter: the records of every row, once both chunk sizes are non-zero
point_bytes_iter(msg) ==
    Flatten([r \in 1..Len(Chunks(msg.data, msg.row_step)) |->
                Chunks(Slice(Chunks(msg.data, msg.row_step)[r], 0,
                             msg.point_step * msg.width),
                       msg.point_step)])

\* an elem_iter that reads every field at the start of the record
elem_iter_at_start(msg, fd) ==
    LET points == point_bytes_iter(msg)
        start == 0
        end == start + fd.data_size * fd.count
    IN  Flatten([p \in 1..Len(points) |->
                    Chunks(Slice(points[p], start, end), fd.data_size)])

\* elem_iter: the elements of one field over all records
elem_iter(msg, fd) ==
    LET points == point_bytes_iter(msg)
        start == fd.offset
        end == start + fd.data_size * fd.count
    IN  Flatten([p \in 1..Len(points) |->
                    Chunks(Slice(points[p], start, end), fd.data_size)])

\* the body of the `columns` closure for one field: [tag, msg, array]
column_of(msg, fd) ==
    LET NoArray == [dt |-> Prim(""), len |-> 0, buffer |-> << >>]
    IN
    IF msg.row_step = 0
    THEN [tag |-> "panic", msg |-> "chunk size must be non-zero", array |-> NoArray]
    ELSE IF Len(msg.data) > 0 /\ msg.point_step = 0
    THEN [tag |-> "panic", msg |-> "chunk size must be non-zero", array |-> NoArray]
    ELSE IF Len(msg.data) > 0 /\ msg.width > 0
            /\ fd.offset + fd.data_size * fd.count > msg.point_step
    THEN [tag |-> "panic", msg |-> "range end index out of range for slice",
          array |-> NoArray]
    ELSE [tag |-> "ok", msg |-> "",
          array |->
            IF fd.count = 1
            THEN make_array(elem_iter(msg, fd), fd.datatype, msg.is_bigendian)
            ELSE make_list_array(elem_iter(msg, fd), fd.count, fd.datatype,
                                 msg.is_bigendian)]

\* a StructArray::from that keeps one column per name, the last one given
StructArray_from_by_name(columns) ==
    LET kept == SelectSeq([i \in 1..Len(columns) |-> [at |-> i, col |-> columns[i]]],
                          LAMBDA e : \A j \in (e.at + 1)..Len(columns) :
                                        columns[j].name # e.col.name)
        cols == [i \in 1..Len(kept) |-> kept[i].col]
    IN  IF \E i \in 1..Len(cols) : cols[i].data_type # cols[i].array.dt
        THEN Panic("Incorrect datatype for StructArray field")
        ELSE IF \E i \in 1..Len(cols) : cols[i].array.len # cols[1].array.len
        THEN Panic("Incorrect array length for StructArray field")
        ELSE Ok([len |-> IF Len(cols) = 0 THEN 0 ELSE cols[1].array.len,
                 columns |-> cols])

\* StructArray::from(Vec<(FieldRef, ArrayRef)>) = StructArray::new(..), which
\* unwraps try_new: every array must have its field's data type and the
\* length of the first array; names are not compared, so two columns of one
\* name both stay
StructArray_from(columns) ==
    IF \E i \in 1..Len(columns) : columns[i].data_type # columns[i].array.dt
    THEN Panic("Incorrect datatype for StructArray field")
    ELSE IF \E i \in 1..Len(columns) : columns[i].array.len # columns[1].array.len
    THEN Panic("Incorrect array length for StructArray field")
    ELSE Ok([len |-> IF Len(columns) = 0 THEN 0 ELSE columns[1].array.len,
             columns |-> columns])

\* a size check that lets a buffer longer than row_step * height through
ensure_sizes_at_least(msg) ==
    IF ~(msg.width * msg.point_step <= msg.row_step)
    THEN Some(Err("Assertion width * point_step <= row_step failed", << >>))
    ELSE IF ~(Len(msg.data) >= msg.row_step * msg.height)
    THEN Some(Err("Invalid data size. Expect {} bytes, but get {} bytes.",
                  << msg.row_step * msg.height, Len(msg.data) >>))
    ELSE None

\* the two ensure! checks that open to_arrow_array: Some(error) or None
ensure_sizes(msg) ==
    IF ~(msg.width * msg.point_step <= msg.row_step)
    THEN Some(Err("Assertion width * point_step <= row_step failed", << >>))
    ELSE IF ~(Len(msg.data) = msg.row_step * msg.height)
    THEN Some(Err("Invalid data size. Expect {} bytes, but get {} bytes.",
                  << msg.row_step * msg.height, Len(msg.data) >>))
    ELSE None

to_arrow_array(msg) ==
    IF ensure_sizes(msg) # None
    THEN ensure_sizes(msg)[1]
    ELSE IF FirstUnsupported(msg.fields) # 0
    THEN Err("Unsupported datatype {datatype}",
             << msg.fields[FirstUnsupported(msg.fields)].datatype >>)
    ELSE
      LET fields == [i \in 1..Len(msg.fields) |-> FieldDesc(msg.fields[i])]
          cols == [i \in 1..Len(fields) |-> column_of(msg, fields[i])]
          failed == {i \in 1..Len(cols) : cols[i].tag = "panic"}
      IN  IF failed # {}
          THEN Panic(cols[CHOOSE i \in failed : \A j \in failed : i <= j].msg)
          ELSE StructArray_from(
                 [i \in 1..Len(fields) |->
                    [name |-> fields[i].field.name,
                     data_type |-> fields[i].field.data_type,
                     array |-> cols[i].array]])

(***************************************************************************)
(* PointCloud2::from_arrow_array                                           *)
(***************************************************************************)
\* mem::size_of::<DataType>() and mem::size_of::<Field>() on a 64-bit target
SizeOfDataType == 24
SizeOfField == 112

\* arrow's DataType::size(): "Return size of this instance in bytes. Includes
\* the size of Self": the memory the DataType value occupies, which is
\* size_of_val(self) for a primitive kind, plus Field::size() of the item
\* field for a FixedSizeList (the item name's capacity and the metadata add
\* to it and are taken as empty).  The element width is primitive_width().
DataType_size(dt) ==
    IF dt.list THEN SizeOfDataType + SizeOfField ELSE SizeOfDataType

\* Display of the DataType named by a bail! message
Display(dt) == IF dt.list THEN "FixedSizeList" ELSE dt.kind

\* the `fields` closure, folded over the columns with the running offset:
\* [tag, fields, offset, msg, args]
RECURSIVE collect_fields(_, _, _, _)
collect_fields(columns, i, offset, acc) ==
    IF i > Len(columns)
    THEN [tag |-> "ok", fields |-> acc, offset |-> offset, msg |-> "",
          args |-> << >>]
    ELSE
      LET name == columns[i].name
          dt == columns[i].array.dt
          field_dt == Prim(dt.kind)
      IN  IF from_arrow_datatype(dt) # None
          THEN collect_fields(columns, i + 1, offset + DataType_size(dt),
                 Append(acc, [name |-> name, offset |-> offset,
                              datatype |-> from_arrow_datatype(dt)[1],
                              count |-> 1]))
          ELSE IF ~dt.list
          THEN [tag |-> "err", fields |-> acc, offset |-> offset,
                msg |-> "Unsupported data type {dt}", args |-> << Display(dt) >>]
          ELSE IF from_arrow_datatype(field_dt) = None
          THEN [tag |-> "err", fields |-> acc, offset |-> offset,
                msg |-> "Unsupported data type {field_dt}",
                args |-> << Display(field_dt) >>]
          ELSE collect_fields(columns, i + 1,
                 offset + DataType_size(field_dt) * dt.size,
                 Append(acc, [name |-> name, offset |-> offset,
                              datatype |-> from_arrow_datatype(field_dt)[1],
                              count |-> dt.size]))

\* <T>::to_be_bytes / <T>::to_le_bytes in write_column! and write_list_column!
to_be_bytes(val) == val
to_le_bytes(val) == Reverse(val)

encode_elem(val, is_be) == IF is_be THEN to_be_bytes(val) ELSE to_le_bytes(val)

\* izip!(dests, vals).for_each(|(d, v)| d.copy_from_slice(&v.to_xx_bytes())):
\* copy_from_slice panics unless both slices have the same length.
\* Returns [tag, bytes]: the destination pieces written, concatenated.
RECURSIVE copy_all(_, _, _, _)
copy_all(dests, vals, is_be, acc) ==
    IF Len(dests) = 0 \/ Len(vals) = 0
    THEN [tag |-> "ok", bytes |-> acc \o Flatten(dests)]
    ELSE IF Len(Head(dests)) # Len(encode_elem(Head(vals), is_be))
    THEN [tag |-> "panic", bytes |-> acc]
    ELSE copy_all(Tail(dests), Tail(vals), is_be,
                  acc \o encode_elem(Head(vals), is_be))

\* one step of the write loop over one row: `row[range]` is taken, then
\* write_column! copies one value into it, write_list_column! copies the
\* entry's values into its elem_size chunks.  [tag, row]
write_row(row, start, end, vals, as_list, elem_size, is_be) ==
    IF end > Len(row)
    THEN [tag |-> "panic", row |-> row]
    ELSE
      LET dests == IF as_list THEN Chunks(Slice(row, start, end), elem_size)
                   ELSE << Slice(row, start, end) >>
          w == copy_all(dests, vals, is_be, << >>)
      IN  IF w.tag = "panic" THEN [tag |-> "panic", row |-> row]
          ELSE [tag |-> "ok",
                row |-> Slice(row, 0, start) \o w.bytes \o Slice(row, end, Len(row))]

\* the values zipped with row idx: the idx-th value of a primitive column, the
\* idx-th entry (dt.size values) of a fixed-size-list column
entry_values(array, idx) ==
    IF array.dt.list
    THEN SubSeq(array.buffer, idx * array.dt.size + 1, (idx + 1) * array.dt.size)
    ELSE << array.buffer[idx + 1] >>

\* the for_each closure over (col, field): writes one column into data.
\* [tag, data]
write_column(data, row_step, array, field, is_be) ==
    IF row_step = 0
    THEN [tag |-> "panic", data |-> data]
    ELSE
      LET start == field.offset
          end == start + DataType_size(array.dt) * field.count
          elem_size == DataType_size(Prim(array.dt.kind))
          rows == Chunks(data, row_step)
          n == Min(Len(rows), array.len)
          written == [r \in 1..n |->
                        write_row(rows[r], start, end, entry_values(array, r - 1),
                                  array.dt.list, elem_size, is_be)]
      IN  IF \E r \in 1..n : written[r].tag = "panic"
          THEN [tag |-> "panic", data |-> data]
          ELSE [tag |-> "ok",
                data |-> Flatten([r \in 1..Len(rows) |->
                                    IF r <= n THEN written[r].row ELSE rows[r]])]

RECURSIVE write_columns(_, _, _, _, _, _)
write_columns(data, row_step, columns, fields, is_be, i) ==
    IF i > Len(columns)
    THEN [tag |-> "ok", data |-> data]
    ELSE LET w == write_column(data, row_step, columns[i].array, fields[i], is_be)
         IN  IF w.tag = "panic" THEN w
             ELSE write_columns(w.data, row_step, columns, fields, is_be, i + 1)

NoCloud ==
    [header |-> "", height |-> 0, width |-> 0, fields |-> << >>,
     is_bigendian |-> FALSE, point_step |-> 0, row_step |-> 0, data |-> << >>,
     is_dense |-> FALSE]

\* from_arrow_array(header, array) on a target whose endianness is is_be:
\* [tag, cloud, msg, args]
from_arrow_array(header, array, is_be) ==
    LET collected == collect_fields(array.columns, 1, 0, << >>)
    IN  IF collected.tag = "err"
        THEN [tag |-> "err", cloud |-> NoCloud, msg |-> collected.msg,
              args |-> collected.args]
        ELSE
          LET point_step == collected.offset
              row_step == point_step
              height == array.len
              w == write_columns(Zeros(height * row_step), row_step,
                                 array.columns, collected.fields, is_be, 1)
          IN  IF w.tag = "panic"
              THEN [tag |-> "panic", cloud |-> NoCloud, msg |-> "", args |-> << >>]
              ELSE [tag |-> "ok",
                    cloud |-> [header |-> header, height |-> height, width |-> 1,
                               fields |-> collected.fields, is_bigendian |-> is_be,
                               point_step |-> point_step, row_step |-> point_step,
                               data |-> w.data, is_dense |-> TRUE],
                    msg |-> "", args |-> << >>]

(***************************************************************************)
(* The inputs of the two conversions                                       *)
(***************************************************************************)
FieldNames == << "x", "y", "z", "w" >>

\* datatype tags a caller may put into a PointField: the eight known ones,
\* and 0 and 9 as unknown ones
Tags == 0..9
TupleTags == {0, F32, F64, 9}

Offsets == {0, 4, 8}
PointSteps == {0, 12}

\* the bytes of a buffer of n bytes: a ramp (251, 252, .. 255, 0, 1, ..), so
\* that every position of a record holds another value
Ramp(n) == [i \in 1..n |-> (250 + i) % 256]

\* field lists: one field with any tag, offset and count; or several fields
\* laid out 4 bytes apart, each with a name of its own or all with one
\* name, at most one of them repeated (count # 1)
FieldLists ==
    { << [name |-> FieldNames[1], offset |-> o, datatype |-> d, count |-> c] >> :
        o \in Offsets, d \in Tags, c \in 0..MaxCount }
    \cup
    UNION { { [i \in 1..n |-> [name |-> IF same THEN FieldNames[1] ELSE FieldNames[i],
                               offset |-> 4 * (i - 1),
                               datatype |-> ds[i], count |-> cs[i]]] :
                ds \in [1..n -> TupleTags],
                cs \in { c \in [1..n -> {1, MaxCount}] :
                           Cardinality({i \in 1..n : c[i] # 1}) <= 1 },
                same \in BOOLEAN } :
            n \in 2..MaxFields }

\* row_step and data length: exact, or one of them off by a little in
\* either direction
Pads == {-1, 0, 2}
Deltas == {-1, 0, 1}

AtLeast0(n) == IF n < 0 THEN 0 ELSE n

Cloud(h, w, fs, be, ps, pad, delta) ==
    [header |-> "hdr", height |-> h, width |-> w, fields |-> fs,
     is_bigendian |-> be, point_step |-> ps,
     row_step |-> AtLeast0(w * ps + pad),
     data |-> Ramp(AtLeast0(AtLeast0(w * ps + pad) * h + delta)),
     is_dense |-> TRUE]

\* byte q of a record lies in the span [offset, offset + size * count) of a
\* field of a known tag
InSpan(msg, q) ==
    \E i \in 1..Len(msg.fields) :
        /\ msg.fields[i].datatype \in RosDataType
        /\ msg.fields[i].offset <= q
        /\ q < msg.fields[i].offset
                 + size(msg.fields[i].datatype) * msg.fields[i].count

\* byte p of data (from 0) lies behind the records of its row
RowPadding(msg, p) ==
    /\ msg.row_step > 0
    /\ (p % msg.row_step) >= msg.width * msg.point_step

\* byte p of data (from 0) lies in a record and in no field's span
RecordGap(msg, p) ==
    /\ msg.row_step > 0
    /\ (p % msg.row_step) < msg.width * msg.point_step
    /\ ~InSpan(msg, (p % msg.row_step) % msg.point_step)

\* the bytes a caller may change between two calls: the padding of the
\* rows, the gaps of the records, or both
Paddings == {"row", "gap", "both"}

\* the message with another value in each of these bytes
WithPadding(msg, which) ==
    [msg EXCEPT !.data =
        [p \in 1..Len(msg.data) |->
            IF \/ (which # "gap" /\ RowPadding(msg, p - 1))
               \/ (which # "row" /\ RecordGap(msg, p - 1))
            THEN (msg.data[p] + 1) % 256
            ELSE msg.data[p]]]

\* the kinds of the columns of a table: the eight the registry knows, and
\* two it does not
Kinds == SupportedKinds \cup {"Int64", "Boolean"}
TupleKinds == {"Float32", "UInt16", "Int64", "Boolean"}

\* arrow's primitive_width of a kind (a Boolean is taken as one byte)
PrimitiveWidth(k) ==
    CASE k \in {"Int8", "UInt8", "Boolean"} -> 1
      [] k \in {"Int16", "UInt16"} -> 2
      [] k \in {"Int32", "UInt32", "Float32"} -> 4
      [] k \in {"Int64", "Float64"} -> 8

\* the j-th element of a column of kind k
ValueAt(k, j) == [b \in 1..PrimitiveWidth(k) |-> (16 * j + b) % 256]

\* column shapes: 0 is a primitive column, n > 0 a FixedSizeList of n - 1
PrimitiveArray(k, rows) ==
    [dt |-> Prim(k), len |-> rows, buffer |-> [j \in 1..rows |-> ValueAt(k, j)]]

FixedSizeListArray(k, n, rows) ==
    [dt |-> FixedSizeList(k, n), len |-> rows,
     buffer |-> [j \in 1..(rows * n) |-> ValueAt(k, j)]]

ColumnArray(k, shape, rows) ==
    IF shape = 0 THEN PrimitiveArray(k, rows)
    ELSE FixedSizeListArray(k, shape - 1, rows)

\* a StructArray: columns of one length, each field typed as its array
StructArray(rows, ks, sh) ==
    [len |-> rows,
     columns |-> [i \in 1..Len(ks) |->
                    [name |-> FieldNames[i],
                     data_type |-> ColumnArray(ks[i], sh[i], rows).dt,
                     array |-> ColumnArray(ks[i], sh[i], rows)]]]

(***************************************************************************)
(* The state machine: a caller converts a table to a message               *)
(* (from_arrow_array) and a message to a table (to_arrow_array), and       *)
(* converts the same message with the other is_bigendian flag, or the     *)
(* message `other` that differs from it in padding bytes.                  *)
(***************************************************************************)
VARIABLES pc, array, encoded, cloud, decoded, swapped, other, otherDecoded

vars == << pc, array, encoded, cloud, decoded, swapped, other, otherDecoded >>

NotEncoded == [tag |-> "none", cloud |-> NoCloud, msg |-> "", args |-> << >>]

Init ==
    /\ encoded = NotEncoded
    /\ decoded = NotRun
    /\ swapped = NotRun
    /\ other = NoCloud
    /\ otherDecoded = NotRun
    /\ \/ /\ pc = "array"
          /\ \E n \in 1..MaxFields, rows \in 0..MaxDim :
               \E ks \in [1..n -> IF n = 1 THEN Kinds ELSE TupleKinds],
                  sh \in [1..n -> 0..(MaxCount + 1)] :
                 array = StructArray(rows, ks, sh)
          /\ cloud = NoCloud
       \/ /\ pc = "cloud"
          /\ array = NoTable
          /\ \E h \in 0..MaxDim, w \in 0..MaxDim, fs \in FieldLists,
                be \in BOOLEAN, ps \in PointSteps, pad \in Pads, delta \in Deltas :
               /\ (pad = 0 \/ delta = 0)
               /\ cloud = Cloud(h, w, fs, be, ps, pad, delta)

\* PointCloud2::from_arrow_array(header, &array), built for either endianness
FromArrowArray ==
    /\ pc = "array"
    /\ \E is_be \in BOOLEAN :
         /\ encoded' = from_arrow_array("hdr", array, is_be)
         /\ cloud' = encoded'.cloud
         /\ pc' = IF encoded'.tag = "ok" THEN "cloud" ELSE "done"
    /\ UNCHANGED << array, decoded, swapped, other, otherDecoded >>

\* cloud.to_arrow_array()
ToArrowArray ==
    /\ pc = "cloud"
    /\ decoded' = to_arrow_array(cloud)
    /\ pc' = "decoded"
    /\ UNCHANGED << array, encoded, cloud, swapped, other, otherDecoded >>

\* to_arrow_array() of the message that differs in is_bigendian only
ToArrowArraySwapped ==
    /\ pc = "decoded"
    /\ swapped' = to_arrow_array([cloud EXCEPT !.is_bigendian = ~@])
    /\ pc' = "done"
    /\ UNCHANGED << array, encoded, cloud, decoded, other, otherDecoded >>

\* to_arrow_array() of a message that differs in padding bytes only
ToArrowArrayPadded ==
    /\ pc = "decoded"
    /\ \E which \in Paddings :
         /\ other' = WithPadding(cloud, which)
         /\ otherDecoded' = to_arrow_array(other')
    /\ pc' = "done"
    /\ UNCHANGED << array, encoded, cloud, decoded, swapped >>

Next ==
    FromArrowArray \/ ToArrowArray \/ ToArrowArraySwapped \/ ToArrowArrayPadded

Spec == Init /\ [][Next]_vars

(***************************************************************************)
(* Vocabulary of the properties                                            *)
(***************************************************************************)
\* the conversions to a table that have run: the message given, the result
Swap(msg) == [msg EXCEPT !.is_bigendian = ~@]

Runs ==
    (IF decoded.tag # "none" THEN {[msg |-> cloud, res |-> decoded]} ELSE {})
    \cup
    (IF swapped.tag # "none" THEN {[msg |-> Swap(cloud), res |-> swapped]} ELSE {})

\* the size precondition of to_arrow_array
SizesOk(msg) ==
    /\ msg.width * msg.point_step <= msg.row_step
    /\ Len(msg.data) = msg.row_step * msg.height

\* a field whose span ends beyond the record
SpanOutOfBounds(msg, f) ==
    /\ f.datatype \in RosDataType
    /\ f.offset + size(f.datatype) * f.count > msg.point_step

\* a message with agreeing sizes, positive strides and counts of at least 1
Plain(msg) ==
    /\ SizesOk(msg)
    /\ msg.point_step > 0
    /\ msg.row_step > 0
    /\ \A i \in 1..Len(msg.fields) : msg.fields[i].count >= 1

\* a message the record format allows: a plain one in which every field
\* has a known tag and lies in the record
WellFormed(msg) ==
    /\ Plain(msg)
    /\ \A i \in 1..Len(msg.fields) :
         /\ msg.fields[i].datatype \in RosDataType
         /\ ~SpanOutOfBounds(msg, msg.fields[i])

\* no field of the message has the tag U16
NoU16(msg) == \A i \in 1..Len(msg.fields) : msg.fields[i].datatype # U16

\* the kind that belongs to a tag: i8, u8, i16, u16, i32, u32, f32, f64
KindOfTag(t) ==
    << "Int8", "UInt8", "Int16", "UInt16", "Int32", "UInt32", "Float32", "Float64" >>[t]

\* a table whose columns are primitive or fixed-size-list columns of the
\* eight supported kinds
SupportedColumn(col) == col.array.dt.kind \in SupportedKinds

\* no column is a fixed-size list of no elements
NoEmptyLists(t) ==
    \A i \in 1..Len(t.columns) :
        t.columns[i].array.dt.list => t.columns[i].array.dt.size >= 1
SupportedTable(t) == \A i \in 1..Len(t.columns) : SupportedColumn(t.columns[i])

\* the entries of an array: len entries, each one value (primitive) or
\* dt.size values (fixed-size list)
Entries(a) ==
    [k \in 1..a.len |->
       IF a.dt.list THEN SubSeq(a.buffer, (k - 1) * a.dt.size + 1, k * a.dt.size)
       ELSE << a.buffer[k] >>]

\* two tables with the same column names, column kinds and values
SameTable(t, u) ==
    /\ Len(t.columns) = Len(u.columns)
    /\ \A i \in 1..Len(t.columns) :
         /\ t.columns[i].name = u.columns[i].name
         /\ t.columns[i].data_type = u.columns[i].data_type
         /\ t.columns[i].array.dt = u.columns[i].array.dt
         /\ t.columns[i].array.len = u.columns[i].array.len
         /\ Entries(t.columns[i].array) = Entries(u.columns[i].array)

\* the w bytes of data that start at byte `at`, read in the message's byte
\* order, most significant byte first
ValueIn(msg, at, w) ==
    [b \in 1..w |-> IF msg.is_bigendian THEN msg.data[at + b]
                    ELSE msg.data[at + w + 1 - b]]

(***************************************************************************)
(* C1: round trip.  For every table whose columns are primitive or         *)
(* fixed-size-list columns of the eight supported kinds,                   *)
(* from_arrow_array succeeds, to_arrow_array of its message succeeds, and  *)
(* the table returned has the same column names, kinds and values.         *)
(* (Stated for lists of at least one element.)                             *)
(***************************************************************************)
C1_RoundTrip ==
    (pc # "array" /\ array # NoTable /\ SupportedTable(array)
        /\ NoEmptyLists(array)) =>
        /\ encoded.tag = "ok"
        /\ (pc # "cloud" => decoded.tag = "ok" /\ SameTable(decoded.table, array))

(***************************************************************************)
(* C2: for every message that satisfies the size precondition,             *)
(* to_arrow_array does not panic: it returns an error value, or a table    *)
(* in which every column has width * height entries.  (Stated for         *)
(* positive strides and counts of at least 1.)                             *)
(***************************************************************************)
C2_NeverPanics ==
    \A run \in Runs :
        Plain(run.msg) =>
            /\ run.res.tag \in {"ok", "err"}
            /\ run.res.tag = "ok" =>
                 \A i \in 1..Len(run.res.table.columns) :
                    run.res.table.columns[i].array.len
                        = run.msg.width * run.msg.height

(***************************************************************************)
(* C3: when a field's span offset + size * count exceeds point_step,       *)
(* to_arrow_array returns an error value and no table; it does not panic.  *)
(* (Stated for a plain message of known tags with at least one record.)    *)
(***************************************************************************)
C3_SpanOutOfBoundsIsError ==
    \A run \in Runs :
        (/\ Plain(run.msg)
         /\ run.msg.width * run.msg.height >= 1
         /\ \A i \in 1..Len(run.msg.fields) :
               run.msg.fields[i].datatype \in RosDataType
         /\ \E i \in 1..Len(run.msg.fields) :
               SpanOutOfBounds(run.msg, run.msg.fields[i]))
        => (run.res.tag = "err" /\ run.res.table = NoTable)

(***************************************************************************)
(* C4: the registry is a bijection on the eight tags: every tag of a       *)
(* field comes back from its Arrow kind, no two tags share a kind, and a   *)
(* kind outside the eight has no tag.                                      *)
(***************************************************************************)
C4_RegistryBijection ==
    /\ \A i \in 1..Len(cloud.fields) :
         cloud.fields[i].datatype \in RosDataType =>
            from_arrow_datatype(to_arrow_datatype(cloud.fields[i].datatype))
                = Some(cloud.fields[i].datatype)
    /\ \A t \in RosDataType, u \in RosDataType :
         to_arrow_datatype(t) = to_arrow_datatype(u) => t = u
    /\ \A k \in Kinds \ SupportedKinds : from_arrow_datatype(Prim(k)) = None

(***************************************************************************)
(* C5: on success of to_arrow_array, element j of entry k of the column    *)
(* of field f is the value read, in the byte order given by is_bigendian,  *)
(* from the size(f) bytes of data that start at                            *)
(* (k div width) * row_step + (k mod width) * point_step + f.offset + j*w. *)
(***************************************************************************)
C5_DecodedValues ==
    \A run \in Runs :
        run.res.tag = "ok" =>
            /\ Len(run.res.table.columns) = Len(run.msg.fields)
            /\ \A i \in 1..Len(run.msg.fields) :
                 LET m == run.msg
                     f == m.fields[i]
                     w == size(f.datatype)
                     a == run.res.table.columns[i].array
                 IN  \A k \in 0..(m.width * m.height - 1), j \in 0..(f.count - 1) :
                        /\ k < a.len
                        /\ k * f.count + j + 1 <= Len(a.buffer)
                        /\ a.buffer[k * f.count + j + 1]
                             = ValueIn(m, (k \div m.width) * m.row_step
                                          + (k % m.width) * m.point_step
                                          + f.offset + j * w, w)

\* two little-endian rows of two records, padded, with two fields, decoded
C5_Witness ==
    /\ decoded.tag = "ok"
    /\ ~cloud.is_bigendian
    /\ cloud.width = 2 /\ cloud.height = 2
    /\ cloud.row_step > cloud.width * cloud.point_step
    /\ Len(cloud.fields) = 2
    /\ cloud.fields[2].offset = 4
    /\ decoded.table.columns[2].array.len = 4

(***************************************************************************)
(* C6: from_arrow_array packs the fields tightly: on success the i-th      *)
(* field's offset is the sum of the spans (element width * count) of the   *)
(* earlier columns, point_step is the sum of all spans, row_step is        *)
(* point_step, width is 1, height is the row count and data holds          *)
(* point_step * height bytes.                                              *)
(***************************************************************************)
RECURSIVE SpanSum(_, _)
SpanSum(columns, n) ==
    IF n = 0 THEN 0
    ELSE SpanSum(columns, n - 1)
         + PrimitiveWidth(columns[n].array.dt.kind)
           * (IF columns[n].array.dt.list THEN columns[n].array.dt.size ELSE 1)

C6_TightPacking ==
    (encoded.tag = "ok" /\ SupportedTable(array)) =>
        LET c == encoded.cloud
        IN  /\ Len(c.fields) = Len(array.columns)
            /\ \A i \in 1..Len(c.fields) :
                 c.fields[i].offset = SpanSum(array.columns, i - 1)
            /\ c.point_step = SpanSum(array.columns, Len(array.columns))
            /\ c.row_step = c.point_step
            /\ c.width = 1
            /\ c.height = array.len
            /\ Len(c.data) = c.point_step * c.height

(***************************************************************************)
(* C7: to_arrow_array checks both size preconditions before anything       *)
(* else: if width * point_step > row_step, or data.len() differs from      *)
(* row_step * height, it returns a size error and no table, whatever the   *)
(* fields are.                                                             *)
(***************************************************************************)
C7_SizeChecksFirst ==
    \A run \in Runs :
        ~SizesOk(run.msg) =>
            /\ run.res.tag = "err"
            /\ run.res.table = NoTable
            /\ run.res.msg \in
                 {"Assertion width * point_step <= row_step failed",
                  "Invalid data size. Expect {} bytes, but get {} bytes."}

\* a buffer one byte too long, with a field of an unknown tag, is refused
\* for its size
C7_Witness ==
    /\ decoded.tag = "err"
    /\ cloud.width * cloud.point_step <= cloud.row_step
    /\ Len(cloud.data) = cloud.row_step * cloud.height + 1
    /\ cloud.height = 2 /\ cloud.width = 2 /\ cloud.point_step > 0
    /\ cloud.fields[1].datatype = 9
    /\ decoded.args = << cloud.row_step * cloud.height, Len(cloud.data) >>

(***************************************************************************)
(* C8: endianness law.  For a well-formed message and the message that     *)
(* differs in is_bigendian only, to_arrow_array yields for every element   *)
(* of every field (count = 1 or count > 1) two values whose bytes are the  *)
(* reverse of each other (so equal values for the one-byte types).         *)
(* (Stated for messages without a U16 field.)                              *)
(***************************************************************************)
C8_EndiannessLaw ==
    (decoded.tag # "none" /\ swapped.tag # "none" /\ WellFormed(cloud)
        /\ NoU16(cloud)) =>
        /\ decoded.tag = "ok"
        /\ swapped.tag = "ok"
        /\ \A i \in 1..Len(cloud.fields) :
             LET a == decoded.table.columns[i].array
                 b == swapped.table.columns[i].array
             IN  /\ a.len = cloud.width * cloud.height
                 /\ b.len = a.len
                 /\ \A k \in 1..a.len :
                      /\ Len(Entries(a)[k]) = cloud.fields[i].count
                      /\ Len(Entries(b)[k]) = cloud.fields[i].count
                      /\ \A j \in 1..cloud.fields[i].count :
                           Entries(b)[k][j] = Reverse(Entries(a)[k][j])

(***************************************************************************)
(* C9: column shape.  For a well-formed message to_arrow_array yields,     *)
(* for a field with count = 1, a primitive column of the field's kind,     *)
(* and for a field with count = n > 1 a FixedSizeList column of that kind  *)
(* with width * height entries of n elements each; the kind the schema     *)
(* declares for a column is the kind of its values.  (Stated for         *)
(* messages without a U16 field.)                                          *)
(***************************************************************************)
C9_ColumnShape ==
    \A run \in Runs :
        (WellFormed(run.msg) /\ NoU16(run.msg)) =>
            /\ run.res.tag = "ok"
            /\ \A i \in 1..Len(run.msg.fields) :
                 LET f == run.msg.fields[i]
                     col == run.res.table.columns[i]
                 IN  /\ col.data_type = col.array.dt
                     /\ col.array.dt
                          = IF f.count = 1 THEN Prim(KindOfTag(f.datatype))
                            ELSE FixedSizeList(KindOfTag(f.datatype), f.count)
                     /\ col.array.len = run.msg.width * run.msg.height
                     /\ \A k \in 1..col.array.len :
                          Len(Entries(col.array)[k]) = f.count

(***************************************************************************)
(* C10: when a column's kind is neither one of the eight supported kinds   *)
(* nor a fixed-size list of one of them, from_arrow_array returns an       *)
(* error value (no panic, no message), and the error names the kind that   *)
(* was refused: the kind of the first such column, or the item kind of     *)
(* its fixed-size list.                                                    *)
(***************************************************************************)
FirstUnsupportedColumn(t) ==
    CHOOSE i \in 1..Len(t.columns) :
        /\ ~SupportedColumn(t.columns[i])
        /\ \A j \in 1..(i - 1) : SupportedColumn(t.columns[j])

C10_UnsupportedKindIsError ==
    (encoded.tag # "none" /\ ~SupportedTable(array)) =>
        /\ encoded.tag = "err"
        /\ encoded.cloud = NoCloud
        /\ encoded.args
             = << array.columns[FirstUnsupportedColumn(array)].array.dt.kind >>

\* a table with rows whose second column is a fixed-size list of Int64
C10_Witness ==
    /\ encoded.tag = "err"
    /\ array.len = 2
    /\ Len(array.columns) = 2
    /\ array.columns[1].array.dt = Prim("Float32")
    /\ array.columns[2].array.dt = FixedSizeList("Int64", 2)
    /\ encoded.args = << "Int64" >>

\* C10 as claimed: the error also identifies the offending column's name
C10_ErrorNamesColumn ==
    (encoded.tag # "none" /\ ~SupportedTable(array)) =>
        /\ encoded.tag = "err"
        /\ \E a \in 1..Len(encoded.args) :
             encoded.args[a] = array.columns[FirstUnsupportedColumn(array)].name

(***************************************************************************)
(* C12: no partial recovery.  When a message passes the size checks and    *)
(* some field has a datatype tag outside 1..8, to_arrow_array returns an   *)
(* error value and no table, whatever the other fields are; the error is   *)
(* that of the first such field in the order of the field list, and it     *)
(* carries that field's tag (and nothing else of the field).               *)
(***************************************************************************)
UnknownTag(f) == f.datatype \notin 1..8

C12_NoPartialRecovery ==
    \A run \in Runs :
        (SizesOk(run.msg)
            /\ \E i \in 1..Len(run.msg.fields) : UnknownTag(run.msg.fields[i])) =>
            /\ run.res.tag = "err"
            /\ run.res.table = NoTable
            /\ run.res.msg = "Unsupported datatype {datatype}"
            /\ \E i \in 1..Len(run.msg.fields) :
                 /\ UnknownTag(run.msg.fields[i])
                 /\ \A j \in 1..(i - 1) : ~UnknownTag(run.msg.fields[j])
                 /\ run.res.args = << run.msg.fields[i].datatype >>

\* two records, two fields with the unknown tags 9 and 0: the error is the
\* first field's
C12_Witness ==
    /\ decoded.tag = "err"
    /\ SizesOk(cloud)
    /\ cloud.width * cloud.height >= 2
    /\ Len(cloud.fields) = 2
    /\ cloud.fields[1].datatype = 9
    /\ cloud.fields[2].datatype = 0
    /\ decoded.args = << 9 >>

\* C12 as claimed: the error also carries the field's name and offset, so
\* three arguments at least: name, tag, offset.  (Stated for messages that
\* pass the size checks.)
C12_ErrorCarriesNameAndOffset ==
    \A run \in Runs :
        (SizesOk(run.msg)
            /\ \E i \in 1..Len(run.msg.fields) : UnknownTag(run.msg.fields[i])) =>
            /\ run.res.tag = "err"
            /\ run.res.table = NoTable
            /\ \E i \in 1..Len(run.msg.fields) :
                 /\ UnknownTag(run.msg.fields[i])
                 /\ \A j \in 1..(i - 1) : ~UnknownTag(run.msg.fields[j])
                 /\ \E a \in 1..Len(run.res.args) :
                      run.res.args[a] = run.msg.fields[i].datatype
                 /\ Len(run.res.args) >= 3

(***************************************************************************)
(* C13: padding is ignored.  Two messages with the same fields, strides,   *)
(* width, height and byte order, whose data differ only in the bytes       *)
(* behind the records of a row, or in record bytes that lie in no field's  *)
(* span, give the same result of to_arrow_array.                           *)
(***************************************************************************)
C13_PaddingIgnored ==
    otherDecoded.tag # "none" =>
        /\ [other EXCEPT !.data = cloud.data] = cloud
        /\ \A p \in 1..Len(cloud.data) :
             other.data[p] # cloud.data[p] =>
                (RowPadding(cloud, p - 1) \/ RecordGap(cloud, p - 1))
        /\ otherDecoded = decoded

\* two padded rows of two records with one field in the middle of the
\* record: row padding and record gaps both differ, both calls return the
\* same four values
C13_Witness ==
    /\ otherDecoded.tag = "ok"
    /\ decoded.tag = "ok"
    /\ cloud.width = 2 /\ cloud.height = 2
    /\ cloud.row_step > cloud.width * cloud.point_step
    /\ cloud.fields[1].offset = 4
    /\ \E p \in 1..Len(cloud.data) :
         RowPadding(cloud, p - 1) /\ other.data[p] # cloud.data[p]
    /\ \E p \in 1..Len(cloud.data) :
         RecordGap(cloud, p - 1) /\ other.data[p] # cloud.data[p]
    /\ otherDecoded.table.columns[1].array.len = 4

(***************************************************************************)
(* C14: on success, to_arrow_array returns one column per field            *)
(* descriptor, in the order of the field list, each with its descriptor's  *)
(* name; also when two descriptors have the same name: the i-th column     *)
(* has the kind of the i-th descriptor's tag and the values read at the    *)
(* i-th descriptor's offset.                                               *)
(***************************************************************************)
C14_ColumnPerField ==
    \A run \in Runs :
        run.res.tag = "ok" =>
            /\ Len(run.res.table.columns) = Len(run.msg.fields)
            /\ \A i \in 1..Len(run.msg.fields) :
                 LET m == run.msg
                     f == m.fields[i]
                     col == run.res.table.columns[i]
                 IN  /\ col.name = f.name
                     /\ col.array.dt.kind = KindOfTag(f.datatype)
                     /\ col.array.len = m.width * m.height
                     /\ \A k \in 0..(col.array.len - 1) :
                          Entries(col.array)[k + 1][1]
                            = ValueIn(m, (k \div m.width) * m.row_step
                                         + (k % m.width) * m.point_step
                                         + f.offset, size(f.datatype))

\* two fields named "x", an F32 at offset 0 and an F64 at offset 4, over
\* records: two columns named "x", the first Float32, the second Float64
C14_Witness ==
    /\ decoded.tag = "ok"
    /\ cloud.width * cloud.height >= 2
    /\ Len(cloud.fields) = 2
    /\ cloud.fields[1].name = cloud.fields[2].name
    /\ cloud.fields[1].datatype = F32
    /\ cloud.fields[2].datatype = F64
    /\ Len(decoded.table.columns) = 2
    /\ decoded.table.columns[1].name = "x"
    /\ decoded.table.columns[2].name = "x"
    /\ decoded.table.columns[1].array.dt = Prim("Float32")
    /\ decoded.table.columns[2].array.dt = Prim("Float64")

=============================================================================
